---------------------------- MODULE Spec2Model ----------------------------
(***************************************************************************)
(* Draculente/mazes: the A* search of src/src/lib.rs over the Map of       *)
(* src/src/map.rs, and the maze generator of src/src/maze_generation.rs.   *)
(*                                                                         *)
(* Coordinates are 0-based as in the source; TLA+ sequences are 1-based,   *)
(* so the block at (x, y) is blocks[y + 1][x + 1].  An Option<T> is a      *)
(* sequence of length 0 (None) or 1 (Some).                                *)
(***************************************************************************)
EXTENDS Integers, Sequences, FiniteSets, TLC

VARIABLES
    pc,                 \* position of the running function
    overflow_checks,    \* build: None until an addition overflows, then Some(TRUE)
                        \* (debug: it panicked) or Some(FALSE) (release: it wrapped)
    map,                \* a_star / get_reachable: the Map argument
    start_block,        \* a_star: start_block
    destination_block,  \* a_star: destination_block
    frontier,           \* a_star: PriorityQueue<Arc<Node>, Reverse<u32>>
    reached,            \* a_star: HashMap<State, Arc<Node>>
    node,               \* a_star: the node popped in this iteration (Option)
    actions,            \* a_star: blocks of get_reachable still to be iterated
    result,             \* return value of the running function (Option)
    arg,                \* get_reachable / connect_cells: the arguments of the call
    loop_prob,          \* generate_maze: loop_prob
    maze,               \* generate_maze / connect_cells: the MazeMap
    stack,              \* generate_maze: stack
    visited             \* generate_maze: visited

vars == <<pc, overflow_checks, map, start_block, destination_block, frontier,
          reached, node, actions, result, arg, loop_prob, maze, stack, visited>>

astarVars == <<map, start_block, destination_block, frontier, reached, node, actions>>
mazeVars == <<loop_prob, maze, stack, visited>>

None == <<>>
Some(v) == <<v>>

(***************************************************************************)
(* Bounds of the model.                                                    *)
(***************************************************************************)
MaxWidth == 3
MaxHeight == 2
MaxSpecial == 2
MaxDepth == 2
MaxMazeWidth == 3
MaxMazeHeight == 2
MaxStack == 1
MaxConnectWidth == 2
MaxConnectHeight == 2

(***************************************************************************)
(* Machine integers.  TLC's integers are 32-bit signed, so a usize or u32  *)
(* is kept as its little-endian sequence of 16-bit limbs without leading   *)
(* zero limbs (0 is <<>>); a u32 has at most 2 limbs, a usize at most 4    *)
(* (64-bit target).                                                        *)
(***************************************************************************)
LimbBase == 256 * 256

RECURSIVE ToBig(_)
ToBig(n) == IF n = 0 THEN <<>> ELSE <<n % LimbBase>> \o ToBig(n \div LimbBase)

RECURSIVE AddCarry(_, _, _)
AddCarry(a, b, c) ==
    IF a = <<>> /\ b = <<>>
    THEN IF c = 0 THEN <<>> ELSE <<c>>
    ELSE LET x == IF a = <<>> THEN 0 ELSE Head(a)
             y == IF b = <<>> THEN 0 ELSE Head(b)
         IN  \* s, and the rest of a and of b, are bound as values before the recursion
             CHOOSE r \in { <<s % LimbBase>> \o AddCarry(ta, tb, s \div LimbBase) :
                              s \in {x + y + c},
                              ta \in {IF a = <<>> THEN <<>> ELSE Tail(a)},
                              tb \in {IF b = <<>> THEN <<>> ELSE Tail(b)} } : TRUE

BigAdd(a, b) == CHOOSE r \in { AddCarry(x, y, 0) : x \in {a}, y \in {b} } : TRUE

RECURSIVE Strip(_)
Strip(a) ==
    CHOOSE r \in { IF x # <<>> /\ x[Len(x)] = 0 THEN Strip(SubSeq(x, 1, Len(x) - 1)) ELSE x :
                     x \in {a} } : TRUE

\* The low `limbs` limbs of a: the value modulo LimbBase^limbs.
Truncate(a, limbs) ==
    CHOOSE r \in { Strip(cut) :
                     cut \in { SubSeq(v, 1, IF Len(v) < limbs THEN Len(v) ELSE limbs) :
                               v \in {a} } } : TRUE

RECURSIVE BigLess(_, _)
BigLess(a, b) ==
    \E x \in {a}, y \in {b} :
        IF Len(x) # Len(y) THEN Len(x) < Len(y)
        ELSE IF x = <<>> THEN FALSE
        ELSE IF x[Len(x)] # y[Len(y)] THEN x[Len(x)] < y[Len(y)]
        ELSE BigLess(SubSeq(x, 1, Len(x) - 1), SubSeq(y, 1, Len(y) - 1))

BigLeq(a, b) == \E x \in {a}, y \in {b} : x = y \/ BigLess(x, y)

U32Limbs == 2
USIZE_MAX == <<LimbBase - 1, LimbBase - 1, LimbBase - 1, LimbBase - 1>>
U32_MAX == <<LimbBase - 1, LimbBase - 1>>

\* `v as u32`
AsU32(v) == Truncate(v, U32Limbs)

\* u32 `a + b`: panics under overflow checks (debug), wraps otherwise (release).
U32Overflows(a, b) == Len(BigAdd(a, b)) > U32Limbs
U32Add(a, b) == Truncate(BigAdd(a, b), U32Limbs)


(***************************************************************************)
(* map.rs: BlockType, Block, Map.                                          *)
(***************************************************************************)
BlockType == {"White", "Black", "Orange", "Blue", "Green", "Yellow", "Border", "Solution"}

Block_new(x, y, block_type) == [x |-> x, y |-> y, block_type |-> block_type]

is_walkable(b) == ~(b.block_type = "Black" \/ b.block_type = "White")

\* Block::speed, a usize.
speed(b) ==
    CASE b.block_type = "White" -> USIZE_MAX
      [] b.block_type = "Black" -> USIZE_MAX
      [] b.block_type = "Orange" -> ToBig(5)
      [] b.block_type = "Blue" -> ToBig(2)
      [] b.block_type = "Green" -> ToBig(1)
      [] b.block_type = "Yellow" -> ToBig(7)
      [] b.block_type = "Border" -> USIZE_MAX
      [] b.block_type = "Solution" -> USIZE_MAX

\* Map::new: width is the length of the first row, height the number of rows.
Map_new(blocks) == [width |-> Len(blocks[1]), height |-> Len(blocks), blocks |-> blocks]

\* Map::get_block: blocks.get(y).and_then(|row| row.get(x)).
get_block(m, x, y) ==
    IF y < Len(m.blocks)
    THEN IF x < Len(m.blocks[y + 1]) THEN Some(m.blocks[y + 1][x + 1]) ELSE None
    ELSE None

is_some(o) == o # None

\* Option<Vec<_>> collected from a sequence of Options: None if any is None.
collect_option(opts) ==
    IF \E i \in 1..Len(opts) : opts[i] = None
    THEN None
    ELSE Some([i \in 1..Len(opts) |-> opts[i][1]])

\* A get_reachable that pushes the right neighbour before the top one.
get_reachable_right_first(m, x, y) ==
    LET left   == IF x > 0 THEN <<get_block(m, x - 1, y)>> ELSE <<>>
        top    == IF y > 0 THEN <<get_block(m, x, y - 1)>> ELSE <<>>
        right  == IF x < m.width THEN <<get_block(m, x + 1, y)>> ELSE <<>>
        bottom == IF y < m.height THEN <<get_block(m, x, y + 1)>> ELSE <<>>
        collected == collect_option(SelectSeq(left \o right \o top \o bottom, is_some))
    IN  [panicked |-> FALSE, blocks |-> SelectSeq(collected[1], is_walkable)]

\* Map::get_reachable.  [panicked, blocks]: panicked is the failed expect().
get_reachable(m, x, y) ==
    LET left   == IF x > 0 THEN <<get_block(m, x - 1, y)>> ELSE <<>>
        top    == IF y > 0 THEN <<get_block(m, x, y - 1)>> ELSE <<>>
        right  == IF x < m.width THEN <<get_block(m, x + 1, y)>> ELSE <<>>
        bottom == IF y < m.height THEN <<get_block(m, x, y + 1)>> ELSE <<>>
        reachable_blocks == left \o top \o right \o bottom
        collected == collect_option(SelectSeq(reachable_blocks, is_some))
    IN  IF collected = None
        THEN [panicked |-> TRUE, blocks |-> <<>>]
        ELSE [panicked |-> FALSE, blocks |-> SelectSeq(collected[1], is_walkable)]

contains(locations, block) == \E i \in 1..Len(locations) : locations[i] = block

\* An enter_solution that retags every block in the column of a location.
enter_solution_by_column(m, locations) ==
    [m EXCEPT !.blocks =
        [r \in 1..Len(m.blocks) |->
            [c \in 1..Len(m.blocks[r]) |->
                IF \E i \in 1..Len(locations) : locations[i].x = m.blocks[r][c].x
                THEN [m.blocks[r][c] EXCEPT !.block_type = "Solution"]
                ELSE m.blocks[r][c]]]]

\* Map::enter_solution: every block equal to one of the locations becomes Solution.
enter_solution(m, locations) ==
    [m EXCEPT !.blocks =
        [r \in 1..Len(m.blocks) |->
            [c \in 1..Len(m.blocks[r]) |->
                IF contains(locations, m.blocks[r][c])
                THEN [m.blocks[r][c] EXCEPT !.block_type = "Solution"]
                ELSE m.blocks[r][c]]]]

(***************************************************************************)
(* lib.rs: State, Node, Solution.                                          *)
(***************************************************************************)
State_new(location) == [location |-> location]

Node_new(state, parent, cost) == [state |-> state, parent |-> parent, cost |-> cost]

Reverse(s) == CHOOSE r \in { [i \in 1..Len(v) |-> v[Len(v) + 1 - i]] \o <<>> : v \in {s} } : TRUE

RECURSIVE walk_parents(_, _)
walk_parents(n, solution) ==
    IF n.parent # None
    THEN walk_parents(n.parent[1], Append(solution, n.state))
    ELSE Append(solution, n.state)

\* Node::get_steps: the states from the node back to the root, reversed.
get_steps(n) == Reverse(walk_parents(n, <<>>))

\* f64::sqrt(n) as u32 for a non-negative integer n: the integer square root.
Isqrt(n) == CHOOSE r \in 0..n : r * r <= n /\ n < (r + 1) * (r + 1)

\* Node::euclidean_distance.
euclidean_distance(n, destination) ==
    LET dx == n.state.location.x - destination.x
        dy == n.state.location.y - destination.y
    IN  ToBig(Isqrt(dx * dx + dy * dy))

\* An f that leaves the accumulated cost out of the priority.
f_without_cost(n, destination) == euclidean_distance(n, destination)

\* Node::f: euclidean_distance + cost in u32.
f_overflows(n, destination) ==
    \E v \in {n} : U32Overflows(euclidean_distance(v, destination), v.cost)
f(n, destination) ==
    CHOOSE r \in { U32Add(euclidean_distance(v, destination), v.cost) : v \in {n} } : TRUE

\* Solution::new.
Solution_new(n, m) ==
    CHOOSE s \in { [states |-> states,
                    map |-> enter_solution(m, [i \in 1..Len(states) |-> states[i].location]
                                              \o <<>>),
                    cost |-> n.cost] : states \in {get_steps(n)} } : TRUE

Ok(v) == [kind |-> "Ok", value |-> v]
Err(msg) == [kind |-> "Err", value |-> msg]
Panic(msg) == [kind |-> "Panic", value |-> msg]

(***************************************************************************)
(* PriorityQueue<Arc<Node>, Reverse<u32>>: a function from the queued      *)
(* nodes to their f.  The greatest priority Reverse(f) is the least f;     *)
(* which of several least nodes pop() returns depends on the heap layout.  *)
(***************************************************************************)
EmptyMap == [k \in {} |-> {}]

\* (The key and the value are bound as values, and @@ with the empty function
\* turns the result into an explicit table.)
insert(h, k, v) ==
    CHOOSE r \in { [x \in DOMAIN h \cup {kk} |-> IF x = kk THEN vv ELSE h[x]] @@ EmptyMap :
                     kk \in {k}, vv \in {v} } : TRUE
remove(h, k) == [x \in DOMAIN h \ {k} |-> h[x]] @@ EmptyMap

is_front(q, n) == n \in DOMAIN q /\ \A o \in DOMAIN q : BigLeq(q[n], q[o])

RECURSIVE depth(_)
depth(n) == IF n.parent = None THEN 1 ELSE 1 + depth(n.parent[1])

(***************************************************************************)
(* Inputs.  A map is built as main.rs builds it from an image: the block   *)
(* at row y, column x carries the coordinates (x, y) and every row has     *)
(* the same length.  All cells are Green except at most MaxSpecial cells   *)
(* of another type.  Border is left out: get_blocks_from_pixel_row splits  *)
(* the pixel rows at Border pixels, so no block of a Map has that type.    *)
(* Solution is in: it is the colour of a solved map saved as an image.     *)
(* White is left out: every function treats it exactly as Black.           *)
(***************************************************************************)
InputTypes == {"Black", "Orange", "Blue", "Yellow", "Solution"}

Positions(w, h) == (0..(w - 1)) \X (0..(h - 1))

MapOf(w, h, t) ==
    Map_new([r \in 1..h |-> [c \in 1..w |->
        Block_new(c - 1, r - 1,
                  IF <<c - 1, r - 1>> \in DOMAIN t THEN t[<<c - 1, r - 1>>] ELSE "Green")]])

InputMaps ==
    UNION { UNION { { MapOf(w, h, t) : t \in [S -> InputTypes] } :
                    S \in { T \in SUBSET Positions(w, h) : Cardinality(T) <= MaxSpecial } } :
            <<w, h>> \in (1..MaxWidth) \X (1..MaxHeight) }

BlocksOf(m) == { m.blocks[r][c] : <<r, c>> \in (1..m.height) \X (1..m.width) }

AStarIdle ==
    /\ map = None /\ start_block = None /\ destination_block = None
    /\ frontier = EmptyMap /\ reached = EmptyMap /\ node = None /\ actions = <<>>

MazeIdle == loop_prob = None /\ maze = None /\ stack = <<>> /\ visited = {}

(***************************************************************************)
(* lib.rs: a_star.  The state after lines 109-117: the first node is in    *)
(* the frontier, and reached is empty.  main.rs takes both blocks from     *)
(* the map with get_block (parse_block).                                   *)
(***************************************************************************)
AStarInit ==
    /\ overflow_checks = None
    /\ map \in InputMaps
    /\ start_block \in BlocksOf(map)
    /\ destination_block \in BlocksOf(map)
    /\ LET first_node == Node_new(State_new(start_block), None, <<>>)
       IN  frontier = insert(EmptyMap, first_node, f(first_node, destination_block))
    /\ reached = EmptyMap
    /\ node = None
    /\ actions = <<>>
    /\ result = None
    /\ pc = "loop"
    /\ arg = None
    /\ MazeIdle

\* The model stops expanding nodes deeper than this (wrapping costs only).
DepthCap == map.width * map.height + MaxDepth

\* frontier.pop() returns n.
Pops(n) == pc = "loop" /\ is_front(frontier, n) /\ depth(n) <= DepthCap

\* Lines 119-123: the popped node is at the destination.
AStarReturn ==
    \E n \in DOMAIN frontier :
        /\ Pops(n)
        /\ n.state.location = destination_block
        /\ frontier' = remove(frontier, n)
        /\ result' = Some(Ok(Solution_new(n, map)))
        /\ pc' = "done"
        /\ UNCHANGED <<overflow_checks, map, start_block, destination_block, reached,
                       node, actions, arg, mazeVars>>

\* Lines 119-124 with a pop() that leaves the node in the frontier.
AStarExpand_without_pop ==
    \E n \in DOMAIN frontier :
        /\ Pops(n)
        /\ n.state.location # destination_block
        /\ frontier' = frontier
        /\ \E r \in {get_reachable(map, n.state.location.x, n.state.location.y)} :
               IF r.panicked
               THEN /\ result' = Some(Panic("Reachable blocks should not be empty"))
                    /\ pc' = "done"
                    /\ UNCHANGED <<node, actions>>
               ELSE /\ result' = result
                    /\ pc' = IF r.blocks = <<>> THEN "loop" ELSE "for"
                    /\ node' = IF r.blocks = <<>> THEN None ELSE Some(n)
                    /\ actions' = r.blocks
        /\ UNCHANGED <<overflow_checks, map, start_block, destination_block, reached,
                       arg, mazeVars>>

\* Lines 119-124: the popped node is expanded.
AStarExpand ==
    \E n \in DOMAIN frontier :
        /\ Pops(n)
        /\ n.state.location # destination_block
        /\ frontier' = remove(frontier, n)
        /\ \E r \in {get_reachable(map, n.state.location.x, n.state.location.y)} :
               IF r.panicked
               THEN /\ result' = Some(Panic("Reachable blocks should not be empty"))
                    /\ pc' = "done"
                    /\ UNCHANGED <<node, actions>>
               ELSE /\ result' = result
                    /\ pc' = IF r.blocks = <<>> THEN "loop" ELSE "for"
                    /\ node' = IF r.blocks = <<>> THEN None ELSE Some(n)
                    /\ actions' = r.blocks
        /\ UNCHANGED <<overflow_checks, map, start_block, destination_block, reached,
                       arg, mazeVars>>

\* Lines 125-130: the child of the current node for the next action.
new_state == State_new(Head(actions))
child_cost_overflows == U32Overflows(node[1].cost, AsU32(speed(Head(actions))))
child ==
    CHOOSE c \in { Node_new(new_state, Some(node[1]), cost) :
                     cost \in {U32Add(node[1].cost, AsU32(speed(Head(actions))))} } : TRUE

InFor == pc = "for" /\ actions # <<>>
is_new == new_state \notin DOMAIN reached
is_cheaper == ~is_new /\ BigLess(child.cost, reached[child.state].cost)
\* An addition of this step overflows: line 129, or line 133 or 138 in its branch.
child_overflows ==
    child_cost_overflows \/ ((is_new \/ is_cheaper) /\ f_overflows(child, destination_block))
\* The step runs to its end: nothing overflows, or the build wraps.
child_continues == ~child_overflows \/ overflow_checks # Some(TRUE)

ForStep ==
    /\ actions' = Tail(actions)
    /\ pc' = IF Tail(actions) = <<>> THEN "loop" ELSE "for"
    /\ node' = IF Tail(actions) = <<>> THEN None ELSE node
    /\ overflow_checks' = IF child_overflows THEN Some(FALSE) ELSE overflow_checks
    /\ UNCHANGED <<map, start_block, destination_block, result, arg, mazeVars>>

\* Lines 129, 133, 138: an addition overflows in a build with overflow checks.
AStarChildPanic ==
    /\ InFor
    /\ child_overflows
    /\ overflow_checks # Some(FALSE)
    /\ overflow_checks' = Some(TRUE)
    /\ result' = Some(Panic("attempt to add with overflow"))
    /\ pc' = "done"
    /\ UNCHANGED <<map, start_block, destination_block, frontier, reached, node,
                   actions, arg, mazeVars>>

\* Lines 131-133.
AStarChildNew ==
    /\ InFor
    /\ child_continues
    /\ is_new
    /\ reached' = insert(reached, new_state, child)
    /\ frontier' = insert(frontier, child, f(child, destination_block))
    /\ ForStep

\* Lines 134-138 without line 136: the replaced node stays in the frontier.
AStarChildCheaper_without_remove ==
    /\ InFor
    /\ child_continues
    /\ is_cheaper
    /\ frontier' = insert(frontier, child, f(child, destination_block))
    /\ reached' = insert(reached, child.state, child)
    /\ ForStep

\* Lines 134-138.
AStarChildCheaper ==
    /\ InFor
    /\ child_continues
    /\ is_cheaper
    /\ frontier' = insert(remove(frontier, reached[child.state]), child,
                          f(child, destination_block))
    /\ reached' = insert(reached, child.state, child)
    /\ ForStep

\* Lines 131-139: neither branch is taken.
AStarChildIgnored ==
    /\ InFor
    /\ child_continues
    /\ ~is_new
    /\ ~is_cheaper
    /\ UNCHANGED <<frontier, reached>>
    /\ ForStep

\* Lines 119, 143.
AStarNoPath ==
    /\ pc = "loop"
    /\ DOMAIN frontier = {}
    /\ result' = Some(Err("There is no path"))
    /\ pc' = "done"
    /\ UNCHANGED <<overflow_checks, astarVars, arg, mazeVars>>

AStarNext ==
    \/ AStarReturn
    \/ AStarExpand
    \/ AStarChildPanic
    \/ AStarChildNew
    \/ AStarChildCheaper
    \/ AStarChildIgnored
    \/ AStarNoPath

SpecAStar == AStarInit /\ [][AStarNext]_vars

(***************************************************************************)
(* Reference notions for the claims about a_star, defined on the grid      *)
(* itself and not through get_reachable or the search.                     *)
(***************************************************************************)
Abs(i) == IF i < 0 THEN -i ELSE i

Adjacent(p, q) == Abs(p.x - q.x) + Abs(p.y - q.y) = 1

Min(S) == CHOOSE v \in S : \A u \in S : v <= u

RECURSIVE FromBig(_)
FromBig(v) == IF v = <<>> THEN 0 ELSE Head(v) + LimbBase * FromBig(Tail(v))

\* Every walkable cell of the map costs 1, 2, 5 or 7.
FiniteCosts(m) ==
    \A b \in BlocksOf(m) : is_walkable(b) => speed(b) \in {ToBig(1), ToBig(2), ToBig(5), ToBig(7)}

\* The cells of the map numbered 1..width*height, row by row.
NumCells(m) == m.width * m.height
CellAt(m, i) == m.blocks[((i - 1) \div m.width) + 1][((i - 1) % m.width) + 1]
IndexOf(m, b) == CHOOSE i \in 1..NumCells(m) : CellAt(m, i) = b

\* in[i]: the cells from which cell i is entered in one step: the cells
\* 4-adjacent to it if it is walkable, none otherwise.  (Concatenation and union
\* with the empty value make TLC compute the tuple and the sets once.)
EnteredFrom(m) ==
    [i \in 1..NumCells(m) |->
        IF is_walkable(CellAt(m, i))
        THEN { j \in 1..NumCells(m) : Adjacent(CellAt(m, j), CellAt(m, i)) } \cup {}
        ELSE {}] \o <<>>

\* One round of relaxation: d[i] is the least known weight of a path from the
\* source to cell i that enters only walkable cells, -1 if none is known.
RelaxOnce(in, d, w) ==
    [i \in 1..Len(d) |->
        LET all == { d[j] + w[i] : j \in { j \in in[i] : d[j] >= 0 } }
                       \cup (IF d[i] >= 0 THEN {d[i]} ELSE {})
        IN  IF all = {} THEN -1 ELSE Min(all)] \o <<>>

\* k rounds.  (Each round is taken of a bound value, so that it is computed once.)
RECURSIVE Relax(_, _, _, _)
Relax(in, d, w, k) ==
    IF k = 0 THEN d
    ELSE CHOOSE r \in { Relax(in, RelaxOnce(in, dd, w), w, k - 1) : dd \in {d} } : TRUE

\* Least weight of a path from s to each cell (-1: no path), by Bellman-Ford;
\* w[i] is the weight of entering cell i.
Distances(m, s, w) ==
    CHOOSE r \in { Relax(in, [i \in 1..NumCells(m) |-> IF CellAt(m, i) = s THEN 0 ELSE -1] \o <<>>,
                         ww, NumCells(m)) : in \in {EnteredFrom(m)}, ww \in {w \o <<>>} } : TRUE

\* The weight of entering a cell: its movement cost if that is finite, else 0
\* (used only on maps where every walkable cell has a finite cost).
FiniteCost(b) == IF Len(speed(b)) <= 1 THEN FromBig(speed(b)) ELSE 0

Hops(m, s, g) == Distances(m, s, [i \in 1..NumCells(m) |-> 1])[IndexOf(m, g)]
MinCost(m, s, g) ==
    Distances(m, s, [i \in 1..NumCells(m) |-> FiniteCost(CellAt(m, i))])[IndexOf(m, g)]

\* g is s or is reached from s by a chain of 4-adjacent cells, each cell entered walkable.
Joined(m, s, g) == Hops(m, s, g) >= 0

Returned == pc = "done" /\ result # None
ReturnedOk == Returned /\ result[1].kind = "Ok"

(***************************************************************************)
(* C1: on a map whose walkable cells all cost 1, 2, 5 or 7, with the goal  *)
(* joined to the start by walkable cells, a_star returns a solution whose  *)
(* cost is the least sum of the costs of the cells entered over all        *)
(* 4-connected walkable paths, whichever least-f node each pop returns.    *)
(***************************************************************************)
C1_CostIsMinimal ==
    (Returned /\ FiniteCosts(map) /\ Joined(map, start_block, destination_block))
        => /\ result[1].kind = "Ok"
           /\ result[1].value.cost = ToBig(MinCost(map, start_block, destination_block))

\* A returned path with more steps than the shortest walkable route, which exists.
C1_Witness ==
    /\ ReturnedOk
    /\ FiniteCosts(map)
    /\ is_walkable(start_block)
    /\ Len(result[1].value.states) - 1 > Hops(map, start_block, destination_block)
    /\ result[1].value.cost = ToBig(MinCost(map, start_block, destination_block))

(***************************************************************************)
(* C2: a_star returns the no-path error exactly when the goal is not       *)
(* joined to the start by a chain of 4-adjacent walkable cells, and a      *)
(* solution in every other case.                                           *)
(***************************************************************************)
C2_NoPathIffUnreachable ==
    Returned =>
        IF Joined(map, start_block, destination_block)
        THEN result[1].kind = "Ok"
        ELSE result[1] = Err("There is no path")

(***************************************************************************)
(* C3: a returned solution lists the start first and the goal last, its    *)
(* consecutive cells are 4-adjacent cells of the map, every cell after     *)
(* the first is walkable, and its cost is the sum of the movement costs    *)
(* of the cells after the first.  The movement cost of a cell is taken as  *)
(* the u32 that a_star adds (speed() as u32); the sum is not reduced.      *)
(***************************************************************************)
RECURSIVE SumOfCosts(_, _)
SumOfCosts(states, i) ==
    IF i > Len(states) THEN <<>>
    ELSE BigAdd(AsU32(speed(states[i].location)), SumOfCosts(states, i + 1))

WellFormedPath(states) ==
    /\ Len(states) >= 1
    /\ states[1].location = start_block
    /\ states[Len(states)].location = destination_block
    /\ \A i \in 1..Len(states) : states[i].location \in BlocksOf(map)
    /\ \A i \in 1..(Len(states) - 1) : Adjacent(states[i].location, states[i + 1].location)
    /\ \A i \in 2..Len(states) : is_walkable(states[i].location)

C3_PathAndCost ==
    ReturnedOk =>
        /\ WellFormedPath(result[1].value.states)
        /\ result[1].value.cost = SumOfCosts(result[1].value.states, 2)

(***************************************************************************)
(* C9: if the start cell or the goal cell is non-traversable, a_star       *)
(* returns the not-found outcome.                                          *)
(***************************************************************************)
C9_BlockedEndpointNotFound ==
    (Returned /\ (~is_walkable(start_block) \/ ~is_walkable(destination_block)))
        => result[1] = Err("There is no path")

(***************************************************************************)
(* get_reachable called on its own: a map and a coordinate of the map.     *)
(***************************************************************************)
ReachableInit ==
    /\ map \in InputMaps
    /\ \E b \in BlocksOf(map) : arg = Some([x |-> b.x, y |-> b.y])
    /\ pc = "get_reachable"
    /\ result = None
    /\ overflow_checks = None
    /\ start_block = None /\ destination_block = None
    /\ frontier = EmptyMap /\ reached = EmptyMap /\ node = None /\ actions = <<>>
    /\ MazeIdle

GetReachable ==
    /\ pc = "get_reachable"
    /\ LET r == get_reachable(map, arg[1].x, arg[1].y)
       IN  result' = IF r.panicked
                     THEN Some(Panic("Reachable blocks should not be empty"))
                     ELSE Some(Ok(r.blocks))
    /\ pc' = "done"
    /\ UNCHANGED <<overflow_checks, astarVars, arg, mazeVars>>

SpecReachable == ReachableInit /\ [][GetReachable]_vars

(***************************************************************************)
(* C10: for every coordinate (x, y) of a map, get_reachable returns,       *)
(* without panicking, exactly the cells at (x-1,y), (x,y-1), (x+1,y),      *)
(* (x,y+1) that lie inside the map and are walkable, in that order.        *)
(***************************************************************************)
InsideMap(m, p) == 0 <= p[1] /\ p[1] < m.width /\ 0 <= p[2] /\ p[2] < m.height

ExpectedReachable(m, x, y) ==
    LET around == << <<x - 1, y>>, <<x, y - 1>>, <<x + 1, y>>, <<x, y + 1>> >>
        Wanted(p) == InsideMap(m, p) /\ is_walkable(m.blocks[p[2] + 1][p[1] + 1])
        kept == SelectSeq(around, Wanted)
    IN  [i \in 1..Len(kept) |-> m.blocks[kept[i][2] + 1][kept[i][1] + 1]]

C10_ReachableIsWalkableNeighbours ==
    (pc = "done" /\ arg # None /\ map # None) =>
        /\ result[1].kind = "Ok"
        /\ result[1].value = ExpectedReachable(map, arg[1].x, arg[1].y)
        /\ \A i \in 1..Len(result[1].value) :
              InsideMap(map, <<result[1].value[i].x, result[1].value[i].y>>)

\* A call at the bottom-right corner of a map at least 2 x 2 that returns two cells.
C10_Witness ==
    /\ pc = "done" /\ arg # None /\ map # None
    /\ map.width >= 2 /\ map.height >= 2
    /\ arg[1].x = map.width - 1 /\ arg[1].y = map.height - 1
    /\ result[1].kind = "Ok"
    /\ Len(result[1].value) = 2

(***************************************************************************)
(* maze_generation.rs: Wall, Cell, Relation, MazeMap.  A Cell is its four  *)
(* walls and its coordinates.  Cell.color and the local `color` of         *)
(* generate_maze are written and never read by the generator, and are      *)
(* left out.                                                               *)
(***************************************************************************)
Cell_new(x, y) ==
    [top |-> "Closed", right |-> "Closed", bottom |-> "Closed", left |-> "Closed",
     x |-> x, y |-> y]

\* A relation that names the neighbour below Top and the neighbour above Bottom.
relation_upside_down(self, other) ==
    IF other.x = self.x + 1 /\ other.y = self.y THEN Ok("Right")
    ELSE IF other.y = self.y + 1 /\ other.x = self.x THEN Ok("Top")
    ELSE IF self.x > 0 /\ other.x = self.x - 1 /\ other.y = self.y THEN Ok("Left")
    ELSE IF self.y > 0 /\ other.y = self.y - 1 /\ other.x = self.x THEN Ok("Bottom")
    ELSE Err("The other cell is not a neighbor to self")

\* Cell::relation: Ok(Relation) or Err.
relation(self, other) ==
    IF other.x = self.x + 1 /\ other.y = self.y THEN Ok("Right")
    ELSE IF other.y = self.y + 1 /\ other.x = self.x THEN Ok("Bottom")
    ELSE IF self.x > 0 /\ other.x = self.x - 1 /\ other.y = self.y THEN Ok("Left")
    ELSE IF self.y > 0 /\ other.y = self.y - 1 /\ other.x = self.x THEN Ok("Top")
    ELSE Err("The other cell is not a neighbor to self")

\* Cell::open_wall_to: Ok(the cell with the wall opened) or the Err of relation.
open_wall_to(self, other) ==
    LET r == relation(self, other)
    IN  IF r.kind = "Err" THEN r
        ELSE CASE r.value = "Top" -> Ok([self EXCEPT !.top = "Open"])
               [] r.value = "Right" -> Ok([self EXCEPT !.right = "Open"])
               [] r.value = "Bottom" -> Ok([self EXCEPT !.bottom = "Open"])
               [] r.value = "Left" -> Ok([self EXCEPT !.left = "Open"])

\* A MazeMap::new that stores the two dimensions in each other's place.
MazeMap_new_swapped(width, height) ==
    [width |-> height, height |-> width,
     cells |-> [r \in 1..height |-> [c \in 1..width |-> Cell_new(c - 1, r - 1)]]]

\* MazeMap::new.
MazeMap_new(width, height) ==
    [width |-> width, height |-> height,
     cells |-> [r \in 1..height |-> [c \in 1..width |-> Cell_new(c - 1, r - 1)]]]

\* MazeMap::get_cell and get_cell_mut: cells.get(y).and_then(|row| row.get(x)).
get_cell(mz, x, y) ==
    IF y < Len(mz.cells)
    THEN IF x < Len(mz.cells[y + 1]) THEN Some(mz.cells[y + 1][x + 1]) ELSE None
    ELSE None

\* A get_neighbors that never looks below the cell.
get_neighbors_without_bottom(mz, cell) ==
    LET left   == IF cell.x > 0 THEN <<get_cell(mz, cell.x - 1, cell.y)>> ELSE <<>>
        top    == IF cell.y > 0 THEN <<get_cell(mz, cell.x, cell.y - 1)>> ELSE <<>>
        right  == IF cell.x < mz.width THEN <<get_cell(mz, cell.x + 1, cell.y)>> ELSE <<>>
        collected == collect_option(SelectSeq(left \o top \o right, is_some))
    IN  [panicked |-> FALSE, cells |-> collected[1]]

\* MazeMap::get_neighbors.  [panicked, cells]: panicked is the failed expect().
get_neighbors(mz, cell) ==
    LET left   == IF cell.x > 0 THEN <<get_cell(mz, cell.x - 1, cell.y)>> ELSE <<>>
        top    == IF cell.y > 0 THEN <<get_cell(mz, cell.x, cell.y - 1)>> ELSE <<>>
        right  == IF cell.x < mz.width THEN <<get_cell(mz, cell.x + 1, cell.y)>> ELSE <<>>
        bottom == IF cell.y < mz.height THEN <<get_cell(mz, cell.x, cell.y + 1)>> ELSE <<>>
        neighbors == left \o top \o right \o bottom
        collected == collect_option(SelectSeq(neighbors, is_some))
    IN  IF collected = None
        THEN [panicked |-> TRUE, cells |-> <<>>]
        ELSE [panicked |-> FALSE, cells |-> collected[1]]

\* A connect_cells that opens the wall of cell_a and leaves cell_b as it is.
connect_cells_one_sided(mz, cell_a, cell_b) ==
    IF get_cell(mz, cell_a.x, cell_a.y) = None
    THEN [result |-> Err("Cell_A is not a part of the map"), maze |-> mz]
    ELSE LET a == open_wall_to(get_cell(mz, cell_a.x, cell_a.y)[1], cell_b)
         IN  IF a.kind = "Err" THEN [result |-> a, maze |-> mz]
             ELSE [result |-> Ok(<<>>),
                   maze |-> [mz EXCEPT !.cells[cell_a.y + 1][cell_a.x + 1] = a.value]]

\* MazeMap::connect_cells.  [result, maze]: the Result returned and the map as
\* the call leaves it (each `?` returns at once, keeping what was written before).
connect_cells(mz, cell_a, cell_b) ==
    IF get_cell(mz, cell_a.x, cell_a.y) = None
    THEN [result |-> Err("Cell_A is not a part of the map"), maze |-> mz]
    ELSE LET a == open_wall_to(get_cell(mz, cell_a.x, cell_a.y)[1], cell_b)
         IN  IF a.kind = "Err" THEN [result |-> a, maze |-> mz]
             ELSE LET mz1 == [mz EXCEPT !.cells[cell_a.y + 1][cell_a.x + 1] = a.value]
                  IN  IF get_cell(mz1, cell_b.x, cell_b.y) = None
                      THEN [result |-> Err("Cell_B is not a part of the map"), maze |-> mz1]
                      ELSE LET b == open_wall_to(get_cell(mz1, cell_b.x, cell_b.y)[1], cell_a)
                           IN  IF b.kind = "Err" THEN [result |-> b, maze |-> mz1]
                               ELSE [result |-> Ok(<<>>),
                                     maze |-> [mz1 EXCEPT
                                         !.cells[cell_b.y + 1][cell_b.x + 1] = b.value]]

\* Cell's PartialEq compares x and y only; the clones kept in `stack` and in
\* `visited` are read for nothing else, and are kept as these coordinates.
Coord(cell) == [x |-> cell.x, y |-> cell.y]

(***************************************************************************)
(* generate_maze.  loop_prob is None, Some("zero") or Some("positive"), a  *)
(* probability in (0, 1): rng.gen_bool(p) is false for p = 0 and either    *)
(* value for p = loop_prob / LOOP_PROB_FACTOR in (0, 1).  `visited` is a   *)
(* Vec that is only pushed to and searched with contains(): a set.         *)
(***************************************************************************)
GenerateInit ==
    /\ \E width \in 0..MaxMazeWidth, height \in 0..MaxMazeHeight :
          arg = Some([width |-> width, height |-> height])
    /\ loop_prob \in {None, Some("zero"), Some("positive")}
    /\ maze = None
    /\ stack = <<>>
    /\ visited = {}
    /\ result = None
    /\ pc = "generate_maze"
    /\ overflow_checks = None
    /\ AStarIdle

\* Lines 188-195: the map is built and the first cell is pushed.
GenerateStart ==
    /\ pc = "generate_maze"
    /\ LET m == MazeMap_new(arg[1].width, arg[1].height)
           first_cell == get_cell(m, 0, 0)
       IN  IF first_cell = None
           THEN /\ result' = Some(Err("The maze must at least have the dimensions 1x1"))
                /\ pc' = "done"
                /\ UNCHANGED <<maze, stack, visited>>
           ELSE /\ maze' = Some(m)
                /\ stack' = <<Coord(first_cell[1])>>
                /\ visited' = {Coord(first_cell[1])}
                /\ pc' = "while"
                /\ result' = result
    /\ UNCHANGED <<overflow_checks, astarVars, arg, loop_prob>>

\* A gen_bool that can return true whatever the probability is.
GenBoolOutcomes_any(neighbors) ==
    SUBSET { i \in 1..Len(neighbors) : Coord(neighbors[i]) \in visited }

\* The outcomes rng.gen_bool can have for the visited neighbours: the sets of
\* neighbours (by position in the list) for which it returns true.
GenBoolOutcomes(neighbors) ==
    IF loop_prob = Some("positive")
    THEN SUBSET { i \in 1..Len(neighbors) : Coord(neighbors[i]) \in visited }
    ELSE { {} }

\* Lines 198-210: the neighbours that pass the filter when gen_bool is true for `drawn`.
unvisited_neighbors(neighbors, drawn) ==
    LET Keep(i) == Coord(neighbors[i]) \notin visited \/ i \in drawn
        kept == SelectSeq([i \in 1..Len(neighbors) |-> i], Keep)
    IN  [i \in 1..Len(kept) |-> neighbors[kept[i]]]

current_cell == stack[Len(stack)]
popped == SubSeq(stack, 1, Len(stack) - 1)

\* The stack length from which the model admits no visited neighbour.
StackCap == maze[1].width * maze[1].height + MaxStack

\* Lines 197-221: an iteration that connects the current cell to a chosen
\* neighbour.  The model re-admits a visited neighbour only below StackCap.
GenerateConnect ==
    /\ pc = "while" /\ stack # <<>>
    /\ \E n \in {get_neighbors(maze[1], current_cell)} :
          /\ ~n.panicked
          /\ \E drawn \in GenBoolOutcomes(n.cells) :
                \E candidates \in {unvisited_neighbors(n.cells, drawn)} :
                   \E chosen_cell \in {candidates[i] : i \in 1..Len(candidates)} :
                      \E c \in {connect_cells(maze[1], current_cell, chosen_cell)} :
                         /\ Coord(chosen_cell) \in visited => Len(stack) < StackCap
                         /\ maze' = Some(c.maze)
                         /\ IF c.result.kind = "Err"
                            THEN /\ result' = Some(c.result)
                                 /\ pc' = "done"
                                 /\ UNCHANGED <<stack, visited>>
                            ELSE /\ visited' = visited \cup {Coord(chosen_cell)}
                                 /\ stack' = popped \o <<current_cell, Coord(chosen_cell)>>
                                 /\ UNCHANGED <<result, pc>>
    /\ UNCHANGED <<overflow_checks, astarVars, arg, loop_prob>>

\* Lines 197-212, 222-224: an iteration in which no neighbour passes the filter.
GenerateBacktrack ==
    /\ pc = "while" /\ stack # <<>>
    /\ LET n == get_neighbors(maze[1], current_cell)
       IN  /\ ~n.panicked
           /\ \E drawn \in GenBoolOutcomes(n.cells) : unvisited_neighbors(n.cells, drawn) = <<>>
    /\ stack' = popped
    /\ UNCHANGED <<overflow_checks, astarVars, arg, loop_prob, maze, visited, result, pc>>

\* Lines 197, 227: the stack is empty.
GenerateReturn ==
    /\ pc = "while" /\ stack = <<>>
    /\ result' = Some(Ok(maze[1]))
    /\ pc' = "done"
    /\ UNCHANGED <<overflow_checks, astarVars, arg, loop_prob, maze, stack, visited>>

GenerateNext == GenerateStart \/ GenerateConnect \/ GenerateBacktrack \/ GenerateReturn

SpecGenerate == GenerateInit /\ [][GenerateNext]_vars

\* generate_maze is a loop on one thread: while an iteration is possible, one is taken.
SpecGenerateFair == SpecGenerate /\ WF_vars(GenerateNext)

(***************************************************************************)
(* Sequences of MazeMap::connect_cells calls on a fresh MazeMap.  The two  *)
(* cells handed in are read for their x and y only; they range over the    *)
(* map and the positions just outside it.                                  *)
(***************************************************************************)
ConnectInit ==
    /\ \E width \in 1..MaxConnectWidth, height \in 1..MaxConnectHeight :
          maze = Some(MazeMap_new(width, height))
    /\ arg = None
    /\ result = None
    /\ pc = "connect_cells"
    /\ loop_prob = None
    /\ stack = <<>>
    /\ visited = {}
    /\ overflow_checks = None
    /\ AStarIdle

ConnectCells ==
    /\ pc = "connect_cells"
    /\ \E ax \in 0..maze[1].width, ay \in 0..maze[1].height,
          bx \in 0..maze[1].width, by \in 0..maze[1].height :
          LET cell_a == [x |-> ax, y |-> ay]
              cell_b == [x |-> bx, y |-> by]
              c == connect_cells(maze[1], cell_a, cell_b)
          IN  /\ maze' = Some(c.maze)
              /\ arg' = Some([cell_a |-> cell_a, cell_b |-> cell_b])
              /\ result' = Some(c.result)
    /\ UNCHANGED <<pc, overflow_checks, astarVars, loop_prob, stack, visited>>

SpecMaze == (GenerateInit \/ ConnectInit) /\ [][GenerateNext \/ ConnectCells]_vars

\* The positions of a w x h grid, and the open connections of a maze: the
\* pairs of adjacent cells of the map whose walls toward each other are open.
Coords(w, h) == { [x |-> x, y |-> y] : x \in 0..(w - 1), y \in 0..(h - 1) }
CellsOf(mz) == { mz.cells[r][c] : r \in 1..Len(mz.cells), c \in 1..mz.width }
WallToward(a, b) ==
    CASE b.x = a.x + 1 /\ b.y = a.y -> a.right
      [] b.x = a.x - 1 /\ b.y = a.y -> a.left
      [] b.y = a.y + 1 /\ b.x = a.x -> a.bottom
      [] b.y = a.y - 1 /\ b.x = a.x -> a.top
NeighbourPairs(mz) ==
    { <<a, b>> \in CellsOf(mz) \X CellsOf(mz) : Abs(a.x - b.x) + Abs(a.y - b.y) = 1 }
Connections(mz) ==
    { {Coord(p[1]), Coord(p[2])} : p \in
        { q \in NeighbourPairs(mz) :
            WallToward(q[1], q[2]) = "Open" /\ WallToward(q[2], q[1]) = "Open" } }
RECURSIVE Closure(_, _)
Closure(E, S) ==
    LET T == S \cup { q \in UNION E : \E p \in S : {p, q} \in E }
    IN  IF T = S THEN S ELSE Closure(E, T)
Connected(E, V) == \A p \in V : Closure(E, {p}) = V
Acyclic(E) == \A e \in E : \A p \in e : ~(e \subseteq Closure(E \ {e}, {p}))

GenerateDone == pc = "done" /\ arg # None /\ arg[1] \in [width : Nat, height : Nat]
GenerateOk == GenerateDone /\ result[1].kind = "Ok"

(* C4: with loop probability 0 or None, generate_maze(width, height) with
   width, height >= 1 returns a maze that is a spanning tree of the grid:
   width*height - 1 open connections, every cell reachable from every other
   cell, and no cycle. *)
C4_PerfectMazeIsSpanningTree ==
    (GenerateDone /\ loop_prob # Some("positive") /\ arg[1].width >= 1 /\ arg[1].height >= 1)
        => /\ result[1].kind = "Ok"
           /\ LET E == Connections(result[1].value)
                  V == Coords(arg[1].width, arg[1].height)
              IN  /\ Cardinality(E) = arg[1].width * arg[1].height - 1
                  /\ Connected(E, V)
                  /\ Acyclic(E)
C4_Witness ==
    /\ GenerateOk /\ loop_prob = Some("zero")
    /\ arg[1].width = MaxMazeWidth /\ arg[1].height = MaxMazeHeight
    /\ Cardinality(Connections(result[1].value)) = MaxMazeWidth * MaxMazeHeight - 1

(* C5: for every loop probability, when generate_maze finishes with its stack
   empty every cell of the grid has been visited and is reachable from cell
   (0,0) through open walls. *)
C5_AllVisitedAndConnected ==
    GenerateOk =>
        LET V == Coords(arg[1].width, arg[1].height)
        IN  /\ stack = <<>>
            /\ visited = V
            /\ Closure(Connections(result[1].value), {[x |-> 0, y |-> 0]}) = V
C5_Witness ==
    /\ GenerateOk /\ loop_prob = Some("positive")
    /\ Cardinality(Connections(result[1].value)) > arg[1].width * arg[1].height - 1
    /\ visited = Coords(arg[1].width, arg[1].height)

(* C6: generate_maze terminates, its stack eventually becoming empty, for
   every loop probability in [0,1). *)
C6_GenerateTerminates == <>(pc = "done")

(* C6, the part that holds: generate_maze terminates when no visited
   neighbour is ever admitted again (loop probability 0 or None). *)
C6_PerfectMazeTerminates == (loop_prob # Some("positive")) => <>(pc = "done")

(* C7: after any sequence of connect_cells calls, and in every maze
   generate_maze builds, for every pair of adjacent cells A and B of the map
   A's wall toward B is Open if and only if B's wall toward A is Open. *)
C7_WallsSymmetric ==
    maze # None =>
        \A p \in NeighbourPairs(maze[1]) :
            WallToward(p[1], p[2]) = "Open" <=> WallToward(p[2], p[1]) = "Open"
C7_Witness ==
    /\ pc = "connect_cells" /\ result = Some(Ok(<<>>))
    /\ Cardinality(Connections(maze[1])) >= 2
    /\ \E c \in CellsOf(maze[1]) : c.x = maze[1].width - 1 /\ c.right = "Open"

(* C8: generate_maze returns an error value, with no panic and no maze,
   exactly when width = 0 or height = 0; for width, height >= 1 it returns a
   MazeMap with that width and height and width*height cells. *)
C8_ErrorIffEmptyDimension ==
    /\ (pc = "while" /\ stack # <<>>) => ~get_neighbors(maze[1], current_cell).panicked
    /\ GenerateDone =>
          IF arg[1].width = 0 \/ arg[1].height = 0
          THEN result[1].kind = "Err" /\ maze = None
          ELSE /\ result[1].kind = "Ok"
               /\ result[1].value.width = arg[1].width
               /\ result[1].value.height = arg[1].height
               /\ Len(result[1].value.cells) = arg[1].height
               /\ \A r \in 1..arg[1].height :
                     Len(result[1].value.cells[r]) = arg[1].width
C8_Witness ==
    /\ GenerateOk
    /\ arg[1].width = MaxMazeWidth /\ arg[1].height = 1
    /\ Len(result[1].value.cells[1]) = MaxMazeWidth
C8_WitnessError ==
    GenerateDone /\ arg[1].width >= 1 /\ arg[1].height = 0 /\ result[1].kind = "Err"

(***************************************************************************)
(* C11: for all cells A and B of a map, if B is in get_reachable(A) then   *)
(* A is in get_reachable(B).                                               *)
(***************************************************************************)
ReachableDone == pc = "done" /\ arg # None /\ map # None /\ result[1].kind = "Ok"
InSeq(s, e) == \E i \in 1..Len(s) : s[i] = e

C11_ReachableSymmetric ==
    ReachableDone =>
        \A i \in 1..Len(result[1].value) :
            InSeq(get_reachable(map, result[1].value[i].x, result[1].value[i].y).blocks,
                  get_block(map, arg[1].x, arg[1].y)[1])

(* C11, the part that holds: for walkable cells A and B of a map, if B is in
   get_reachable(A) then A is in get_reachable(B). *)
C11_WalkableReachableSymmetric ==
    (ReachableDone /\ is_walkable(get_block(map, arg[1].x, arg[1].y)[1])) =>
        \A i \in 1..Len(result[1].value) :
            InSeq(get_reachable(map, result[1].value[i].x, result[1].value[i].y).blocks,
                  get_block(map, arg[1].x, arg[1].y)[1])

(***************************************************************************)
(* C12: the map of the Solution a successful a_star returns differs from   *)
(* the input map only in that the cells on the returned path carry the     *)
(* Solution type: every cell off the path keeps its type, all coordinates  *)
(* and the dimensions are unchanged, and the input map is not modified.    *)
(***************************************************************************)
OnPath(states, x, y) ==
    \E i \in 1..Len(states) : states[i].location.x = x /\ states[i].location.y = y

SolutionMapFrame ==
    ReturnedOk =>
        LET s == result[1].value
        IN  /\ s.map.width = map.width
            /\ s.map.height = map.height
            /\ Len(s.map.blocks) = Len(map.blocks)
            /\ \A r \in 1..Len(map.blocks) :
                  /\ Len(s.map.blocks[r]) = Len(map.blocks[r])
                  /\ \A c \in 1..Len(map.blocks[r]) :
                        /\ s.map.blocks[r][c].x = map.blocks[r][c].x
                        /\ s.map.blocks[r][c].y = map.blocks[r][c].y
                        /\ s.map.blocks[r][c].block_type =
                              IF OnPath(s.states, c - 1, r - 1)
                              THEN "Solution"
                              ELSE map.blocks[r][c].block_type

C12_SolutionMapFrame == [](SolutionMapFrame) /\ [][map' = map]_vars

\* A path of at least three cells next to a cell that is off the path and not Green.
C12_Witness ==
    /\ ReturnedOk
    /\ Len(result[1].value.states) >= 3
    /\ result[1].value.map # map
    /\ \E r \in 1..Len(map.blocks) : \E c \in 1..Len(map.blocks[r]) :
          /\ ~OnPath(result[1].value.states, c - 1, r - 1)
          /\ map.blocks[r][c].block_type = "Orange"
          /\ result[1].value.map.blocks[r][c] = map.blocks[r][c]

(***************************************************************************)
(* C13: every block type with the infinite movement cost is not walkable   *)
(* and every walkable type has a finite positive cost, so no block that    *)
(* get_reachable hands to a_star adds the usize::MAX sentinel to a cost.   *)
(***************************************************************************)
FinitePositive(v) == v # <<>> /\ BigLess(v, U32_MAX)

C13_SentinelNeverTraversable ==
    /\ \A t \in BlockType :
          LET b == Block_new(0, 0, t)
          IN  /\ speed(b) = USIZE_MAX => ~is_walkable(b)
              /\ is_walkable(b) => FinitePositive(speed(b))
    /\ InFor => FinitePositive(speed(Head(actions)))

(* C13, the part that holds: a block of type Orange, Blue, Green or Yellow
   is walkable and adds a finite positive cost; Black and White blocks are
   never handed to a_star. *)
C13_OtherTypesAreConsistent ==
    /\ \A t \in BlockType \ {"Border", "Solution"} :
          LET b == Block_new(0, 0, t)
          IN  /\ speed(b) = USIZE_MAX => ~is_walkable(b)
              /\ is_walkable(b) => FinitePositive(speed(b))
    /\ (InFor /\ Head(actions).block_type # "Solution") =>
          FinitePositive(speed(Head(actions)))

(***************************************************************************)
(* C14: once a coordinate is reached, the start counting as reached at     *)
(* cost 0 from the initialization on, discovering it again at an equal or  *)
(* higher cost changes neither reached nor the frontier, and the cost      *)
(* recorded for a coordinate never increases.                              *)
(***************************************************************************)
\* The cost a coordinate is reached at, with the start reached at 0 from the beginning.
RecordedCost(s) ==
    IF s = State_new(start_block) /\ s \notin DOMAIN reached THEN Some(<<>>)
    ELSE IF s \in DOMAIN reached THEN Some(reached[s].cost)
    ELSE None

CostNeverIncreases ==
    \A s \in DOMAIN reached :
        s \in DOMAIN reached' /\ BigLeq(reached'[s].cost, reached[s].cost)

C14_NoReLowering ==
    [][/\ CostNeverIncreases
       /\ (InFor /\ RecordedCost(new_state) # None
                 /\ BigLeq(RecordedCost(new_state)[1], child.cost))
             => (reached' = reached /\ frontier' = frontier)]_vars

(* C14, the part that holds: a coordinate that is in reached and is
   discovered again at an equal or higher cost changes neither reached nor
   the frontier, and the cost recorded in reached never increases. *)
C14_NoReLoweringOfReached ==
    [][/\ CostNeverIncreases
       /\ (InFor /\ new_state \in DOMAIN reached
                 /\ BigLeq(reached[new_state].cost, child.cost))
             => (reached' = reached /\ frontier' = frontier)]_vars

(***************************************************************************)
(* C15: at every step of a_star the frontier holds at most one node per    *)
(* coordinate, and every frontier node other than the first node is the    *)
(* entry of reached for its coordinate, so a node that a cheaper one has   *)
(* replaced in reached is not in the frontier afterwards.                  *)
(***************************************************************************)
first_node == Node_new(State_new(start_block), None, <<>>)

C15_OneFrontierNodePerCoordinate ==
    /\ \A n \in DOMAIN frontier : \A o \in DOMAIN frontier : n.state = o.state => n = o
    /\ \A n \in DOMAIN frontier :
          n # first_node => (n.state \in DOMAIN reached /\ reached[n.state] = n)

\* A cheaper child is about to replace a node that is still in the frontier.
C15_Witness ==
    /\ InFor /\ child_continues /\ is_cheaper
    /\ reached[child.state] \in DOMAIN frontier
    /\ FiniteCosts(map)
    /\ is_walkable(start_block)

(***************************************************************************)
(* a_star is a loop on one thread: while a step is possible, one is taken. *)
(***************************************************************************)
SpecAStarFair == SpecAStar /\ WF_vars(AStarNext)

(***************************************************************************)
(* C16: on every map whose walkable cells have finite positive costs,      *)
(* a_star runs to completion: after finitely many pops the goal is popped  *)
(* or the frontier is empty.                                               *)
(***************************************************************************)
C16_AStarTerminates == FiniteCosts(map) => <>(pc = "done")

\* The frontier ran empty after at least three coordinates were reached.
C16_Witness ==
    /\ Returned /\ FiniteCosts(map)
    /\ result[1] = Err("There is no path")
    /\ DOMAIN frontier = {}
    /\ Cardinality(DOMAIN reached) >= 3


\* The cell `cell` with its wall facing the position `other` open and its
\* other walls as they are; y grows downward (tests relation_*_neighbor and
\* connect_cells_*: the cell at y + 1 is the Bottom neighbour).
Opened(cell, other) ==
    [cell EXCEPT
        !.top    = IF other.x = cell.x /\ other.y = cell.y - 1 THEN "Open" ELSE @,
        !.bottom = IF other.x = cell.x /\ other.y = cell.y + 1 THEN "Open" ELSE @,
        !.left   = IF other.y = cell.y /\ other.x = cell.x - 1 THEN "Open" ELSE @,
        !.right  = IF other.y = cell.y /\ other.x = cell.x + 1 THEN "Open" ELSE @]

\* The map a successful connect_cells(cell_a, cell_b) is meant to leave.
Connected_cells(mz, cell_a, cell_b) ==
    [mz EXCEPT !.cells =
        [r \in 1..Len(mz.cells) |-> [c \in 1..Len(mz.cells[r]) |->
            IF Coord(mz.cells[r][c]) = Coord(cell_a) THEN Opened(mz.cells[r][c], cell_b)
            ELSE IF Coord(mz.cells[r][c]) = Coord(cell_b) THEN Opened(mz.cells[r][c], cell_a)
            ELSE mz.cells[r][c]]]]

(* C17: a connect_cells(a, b) that returns Ok was given two adjacent cells of
   the map, and it opens exactly the wall of a that faces b and the wall of b
   that faces a (the cell at y+1 is the Bottom neighbour, at y-1 the Top, at
   x+1 the Right, at x-1 the Left); every other wall of a, of b and of all
   other cells, and the dimensions of the map, stay as they were. *)
C17_ConnectOpensFacingWalls ==
    [][(pc = "connect_cells" /\ result' = Some(Ok(<<>>))) =>
          /\ Coord(arg'[1].cell_a) \in Coords(maze[1].width, maze[1].height)
          /\ Coord(arg'[1].cell_b) \in Coords(maze[1].width, maze[1].height)
          /\ Abs(arg'[1].cell_a.x - arg'[1].cell_b.x)
               + Abs(arg'[1].cell_a.y - arg'[1].cell_b.y) = 1
          /\ maze' = Some(Connected_cells(maze[1], arg'[1].cell_a, arg'[1].cell_b))]_vars
C17_Witness ==
    /\ pc = "connect_cells" /\ result = Some(Ok(<<>>))
    /\ arg[1].cell_b.x = arg[1].cell_a.x /\ arg[1].cell_b.y = arg[1].cell_a.y - 1
    /\ get_cell(maze[1], arg[1].cell_a.x, arg[1].cell_a.y)[1].top = "Open"
    /\ get_cell(maze[1], arg[1].cell_a.x, arg[1].cell_a.y)[1].bottom = "Closed"
    /\ get_cell(maze[1], arg[1].cell_b.x, arg[1].cell_b.y)[1].bottom = "Open"
    /\ get_cell(maze[1], arg[1].cell_b.x, arg[1].cell_b.y)[1].top = "Closed"
    /\ Cardinality(Connections(maze[1])) >= 2

(* C18: connect_cells updates both sides atomically: whenever it returns an
   error (the two cells are not neighbours, are the same cell, or one of them
   lies outside the map), no wall of any cell of the map has been changed. *)
C18_ErrorLeavesMapUnchanged ==
    [][(pc = "connect_cells" /\ result'[1].kind = "Err") => maze' = maze]_vars

(* C18, the part that holds: an error found before the first write (cell_a
   outside the map, or cell_b no neighbour of cell_a) leaves the map as it
   was; the error for a cell_b outside the map is the one that comes after
   cell_a's wall has been opened. *)
C18_EarlyErrorLeavesMapUnchanged ==
    [][(/\ pc = "connect_cells"
        /\ result'[1].kind = "Err"
        /\ result'[1] # Err("Cell_B is not a part of the map")) => maze' = maze]_vars

=============================================================================
